---- MODULE Spec2Model ----
(***************************************************************************)
(* AutoClaude: the webhook router (src/src/server.js) and the orchestrator *)
(* handleIssue with its gateways (src/src/claude-handler.js, the gh-CLI    *)
(* variant, lines 1-519).  The working directory REPO_PATH, its git state  *)
(* and the hosting side (remote branches, pull requests, comments) are the *)
(* shared state; every await of handleIssue is one step of a run.          *)
(***************************************************************************)
EXTENDS Integers, Sequences, FiniteSets, TLC

\* ------------------------------------------------------------------ bounds
\* Number of webhook deliveries / handleIssue calls in one session.
MaxRuns == 2
\* Number of external commands (git, gh, the assistant) that fail in one
\* session although the state of the repository and of the hosting side
\* would let them succeed.
MaxFaults == 2
\* The same number in the sessions that explore every configuration of the
\* router.
MaxRouterFaults == 1
\* Number of data events on the standard output, and on the standard error,
\* of one assistant subprocess.
MaxChunks == 2
\* Length of a string field of the analysis, in characters.
MaxText == 3
\* Length of an issue title, in characters.
MaxTitle == 3

Runs == 1..MaxRuns

\* ------------------------------------------------------- names and inputs
Main == <<"main", 0>>
Dev == <<"dev", 0>>

\* Item numbers on the hosting side: 42 is an issue, 7 is an open pull request.
Issues == {42}
PullRequests == {7}
ItemNumbers == Issues \cup PullRequests

\* `autoclaude/issue-${issueNumber}`
IssueBranch(n) == <<"autoclaude/issue", n>>
\* headRefName and baseRefName of pull request n on the hosting side
PrHead(n) == <<"feature", n>>
PrBase(n) == Main

Branches == {Main, Dev} \cup {IssueBranch(n) : n \in ItemNumbers}
              \cup {PrHead(n) : n \in PullRequests}

\* A commit is named by who made it: the run itself, the assistant during a
\* run's fix stage, or the commit a pull request already carried.
PreCommit(n) == <<"pr", n>>
RunCommit(r) == <<"run", r>>
AsstCommit(r) == <<"assistant", r>>

Commits == {PreCommit(n) : n \in PullRequests}
             \cup {RunCommit(r) : r \in Runs} \cup {AsstCommit(r) : r \in Runs}

NoBranch == <<"undefined", 0>>

\* ------------------------------------------------------------ the assistant
\* The assistant's text output as a sequence of tokens: "{" and "}" are the
\* brace characters, "w" is prose without braces, "T"/"F" are the members of
\* a well-formed analysis object with canResolve true/false.
AnalysisOutputs ==
  { <<"{", "T", "}">>,
    <<"w", "{", "T", "}", "w">>,
    <<"{", "F", "}">>,
    <<"{", "}">>,
    <<"w">>,
    <<"}", "w", "{">>,
    <<"{", "T", "}", "w", "}">>,
    <<"{", "T">> }

\* How an invocation of runClaude settles.
ClaudeFailures == {"Claude CLI timed out", "Claude exited with code 1", "spawn claude ENOENT"}

Positions(s, c) == {i \in 1..Len(s) : s[i] = c}

Min(S) == CHOOSE x \in S : \A y \in S : x <= y
Max(S) == CHOOSE x \in S : \A y \in S : x >= y

\* analysisResult.match(/\{[\s\S]*\}/): greedy, from the first "{" to the
\* last "}" after it; <<>> stands for null (no match).
jsonMatch(s) ==
  IF Positions(s, "{") = {} THEN <<>>
  ELSE LET first == Min(Positions(s, "{"))
           closers == {i \in Positions(s, "}") : i > first}
       IN  IF closers = {} THEN <<>>
           ELSE SubSeq(s, first, Max(closers))

Undefined == "undefined"

\* JSON.parse of the matched text; "SyntaxError" when it is not one object.
JSONparse(m) ==
  IF m = <<"{", "T", "}">> THEN
    [canResolve |-> TRUE, confidence |-> "high", reason |-> "clear bug",
     approach |-> "fix typo", estimatedComplexity |-> "simple"]
  ELSE IF m = <<"{", "F", "}">> THEN
    [canResolve |-> FALSE, confidence |-> "low", reason |-> "too vague",
     approach |-> "", estimatedComplexity |-> "complex"]
  ELSE IF m = <<"{", "}">> THEN
    \* {} parses; every field reads as undefined and canResolve is falsy
    [canResolve |-> FALSE, confidence |-> Undefined, reason |-> Undefined,
     approach |-> Undefined, estimatedComplexity |-> Undefined]
  ELSE [canResolve |-> FALSE, confidence |-> "SyntaxError", reason |-> "SyntaxError",
        approach |-> "SyntaxError", estimatedComplexity |-> "SyntaxError"]

\* The texts JSON.parse accepts.
JsonObjects == {<<"{", "T", "}">>, <<"{", "F", "}">>, <<"{", "}">>}

JSONparseThrows(m) == m \notin JsonObjects

\* What the analysis invocation of the assistant gave the run: the message of
\* a failure, an output with a JSON object somewhere in it, or an output
\* without one.
assistantGave(out) ==
  IF out \in ClaudeFailures THEN out
  ELSE IF \E i, j \in 1..Len(out) : i <= j /\ SubSeq(out, i, j) \in JsonObjects
    THEN "object"
  ELSE "no object"

NoAnalysis ==
  [canResolve |-> FALSE, confidence |-> "unset", reason |-> "unset",
   approach |-> "unset", estimatedComplexity |-> "unset"]

\* A variant of the timer callback that rejects without claude.kill().
killsNever(result) == FALSE

\* Lines 30-33: the invocations in which runClaude kills its subprocess are
\* those that end with the timeout error.
kills(result) == result = "Claude CLI timed out"

\* A variant that takes whatever the assistant printed for an analysis and
\* reports only a failed invocation.
analysisErrorLenient(out) == IF out \in ClaudeFailures THEN out ELSE ""

\* The try block of step 1: the error message it ends with, "" when it
\* produced an analysis.  out is the settled result of runClaude: a failure
\* message or the output text.
analysisError(out) ==
  IF out \in ClaudeFailures THEN out
  ELSE IF jsonMatch(out) = <<>> THEN "No JSON found in response"
  ELSE IF JSONparseThrows(jsonMatch(out)) THEN "Unexpected token in JSON"
  ELSE ""

\* ---------------------------------------------------------------- requests
\* 'sha256=' + 64 hex digits
SigLen == 71

Hmac(key, body) == <<key, body>>

Absent == [len |-> 0, mac |-> <<"", "">>]

Good == [len |-> SigLen, mac |-> Hmac("secret", "body")]

\* The x-hub-signature-256 header of a delivery: missing, the digest of this
\* body, the digest of another body (stale), a truncated digest.
Signatures ==
  { Absent, Good,
    [len |-> SigLen, mac |-> Hmac("secret", "other body")],
    [len |-> SigLen - 7, mac |-> Hmac("secret", "body")] }

CommentBodies == {"@user please fix", "looks good", ""}

\* Webhook deliveries.  An issues event carries no comment and names an
\* issue; an issue_comment event names the pull request commented on.
Requests ==
  [event : {"issues"}, action : {"opened", "edited"}, comment : {""},
   signature : Signatures, number : Issues]
  \cup
  [event : {"issue_comment"}, action : {"created"}, comment : {"@user please fix"},
   signature : Signatures, number : PullRequests]
  \cup
  [event : {"issue_comment"}, action : {"created", "edited"}, comment : CommentBodies,
   signature : {Good}, number : PullRequests]
  \cup
  [event : {"ping"}, action : {"created"}, comment : {""},
   signature : {Good}, number : Issues]

NoRequest == [event |-> "none", action |-> "none", comment |-> "",
              signature |-> Absent, number |-> 0]

\* Work items handed to the exported handleIssue by a caller other than the
\* router (the router never sets isPullRequest).
WorkItems ==
  { [issueNumber |-> 7, isPullRequest |-> TRUE, commentBody |-> "@user please fix"],
    [issueNumber |-> 42, isPullRequest |-> TRUE, commentBody |-> "@user please fix"] }

\* 'sha256=' + HMAC-SHA256(WEBHOOK_SECRET, JSON.stringify(req.body)), in hex
expectedSignature == [len |-> SigLen, mac |-> Hmac("secret", "body")]

\* crypto.timingSafeEqual: throws on buffers of different length
timingSafeEqual(a, b) ==
  IF a.len # b.len THEN "RangeError" ELSE IF a = b THEN "true" ELSE "false"

\* ------------------------------------------------------------------- state
VARIABLES
  webhookSecret,   \* WEBHOOK_SECRET is configured
  mentionUser,     \* GITHUB_MENTION_USER is configured
  serial,          \* deliveries arrive one after the other (no overlap)
  budget,          \* number of commands that fail in this session, at most
  started,         \* number of deliveries / calls so far
  request,         \* request[r]: the webhook request that started r
  response,        \* response[r]: what the router answered
  run,             \* run[r]: handleIssue's position, parameters and locals
  hist,            \* hist[r]: what run r did (commands, comments, ...)
  head,            \* the branch checked out in REPO_PATH
  localBranches,   \* branches of the local repository
  localCommits,    \* localCommits[b]: commits of local branch b not on origin/main
  unstaged,        \* runs whose assistant edits are in the working tree, unstaged
  staged,          \* runs whose assistant edits are in the index
  remoteBranches,  \* branches on origin
  remoteCommits,   \* remoteCommits[b]: commits of origin/b not on origin/main
  pullRequests,    \* pull requests created by runs
  commitEdits,     \* commitEdits[c]: whose edits commit c contains, {} when no
                   \* branch holds c
  claude,          \* one invocation of runClaude: its subprocess, its timer,
                   \* its buffers and its promise
  embed,           \* one field of a parsed analysis on its way into a posted
                   \* body
  committing       \* one pass through the commit step: its inputs, the
                   \* commands it ran, the message of the commit it made

vars == <<webhookSecret, mentionUser, serial, budget, started, request, response, run,
          hist, head, localBranches, localCommits, unstaged, staged,
          remoteBranches, remoteCommits, pullRequests, commitEdits, claude,
          embed, committing>>

config == <<webhookSecret, mentionUser, serial, budget>>
aside == <<claude, embed, committing>>
workdir == <<head, localBranches, localCommits, unstaged, staged, commitEdits>>
origin == <<remoteBranches, remoteCommits>>
hosting == <<pullRequests>>

IdleRun ==
  [pc |-> "idle", via |-> "none", issueNumber |-> 0, isPullRequest |-> FALSE,
   commentBody |-> "", analysis |-> NoAnalysis, error |-> "",
   branchName |-> NoBranch, baseBranch |-> Main,
   hasUncommittedChanges |-> FALSE, hasNewCommits |-> FALSE,
   rejected |-> FALSE, handler |-> "none"]

NoHist ==
  [cmds |-> <<>>, comments |-> <<>>, claudeCalls |-> 0, prs |-> 0,
   gave |-> "nothing", killed |-> FALSE, created |-> FALSE, before |-> {}, startHead |-> NoBranch,
   fixEffect |-> "none", faults |-> 0, clean |-> FALSE]

\* No pass through the commit step is looked at command by command.
NoCommitting ==
  [pc |-> "none", isPullRequest |-> FALSE, issueNumber |-> "", issueTitle |-> <<>>,
   hasUncommittedChanges |-> FALSE, hasNewCommits |-> FALSE, cmds |-> <<>>,
   message |-> <<>>]

\* No field of an analysis is followed into a body.
NoEmbed == [handler |-> "none", pc |-> "none",
            value |-> [type |-> "undefined", chars |-> <<>>],
            body |-> [type |-> "undefined", chars |-> <<>>]]

\* No invocation of runClaude is looked at event by event.
NoClaude ==
  [stdout |-> <<>>, stderr |-> <<>>, timer |-> "none", killed |-> FALSE,
   closed |-> FALSE, code |-> "none", errored |-> FALSE, state |-> "none",
   value |-> <<>>, first |-> "none", calls |-> 0]

\* The state after start-up, on a fresh clone with main checked out.
Start(secret, mention) ==
  /\ webhookSecret = secret
  /\ mentionUser = mention
  /\ started = 0
  /\ request = [r \in Runs |-> NoRequest]
  /\ response = [r \in Runs |-> "none"]
  /\ run = [r \in Runs |-> IdleRun]
  /\ hist = [r \in Runs |-> NoHist]
  /\ head = Main
  /\ localBranches = {Main}
  /\ localCommits = [b \in Branches |-> {}]
  /\ unstaged = {}
  /\ staged = {}
  /\ remoteBranches = {Main, Dev} \cup {PrHead(n) : n \in PullRequests}
  /\ remoteCommits = [b \in Branches |->
                        IF \E n \in PullRequests : b = PrHead(n)
                        THEN {PreCommit(b[2])} ELSE {}]
  /\ pullRequests = {}
  /\ commitEdits = [c \in Commits |-> {}]

\* ------------------------------------------------------------------ router
\* verifySignature(req): "true", "false", or "RangeError" when
\* crypto.timingSafeEqual throws.
verifySignature(secret, req) ==
  IF ~secret THEN "true"
  ELSE IF req.signature.len = 0 THEN "false"
  ELSE timingSafeEqual(req.signature, expectedSignature)

mentionPattern == "@user"

\* A variant of the router without the mention test of line 73.
includesAnything(body, pattern) == TRUE

includes(body, pattern) == pattern = "@user" /\ body = "@user please fix"

\* The routing of a verified request: the JSON message of the response and
\* whether handleIssue is called.
route(mention, req) ==
  IF req.event = "issue_comment" THEN
    IF req.action # "created" THEN [message |-> "Action ignored", dispatch |-> FALSE]
    ELSE IF ~mention THEN [message |-> "Mention user not configured", dispatch |-> FALSE]
    ELSE IF req.comment = "" \/ ~includes(req.comment, mentionPattern)
      THEN [message |-> "No matching mention found", dispatch |-> FALSE]
    ELSE [message |-> "Comment mention received, processing...", dispatch |-> TRUE]
  ELSE IF req.event # "issues" THEN [message |-> "Event ignored", dispatch |-> FALSE]
  ELSE IF req.action # "opened" THEN [message |-> "Action ignored", dispatch |-> FALSE]
  ELSE [message |-> "Issue received, processing...", dispatch |-> TRUE]

\* The argument object the router builds for handleIssue: neither call site
\* passes isPullRequest, so the parameter takes its default, false.
routerWorkItem(req) ==
  [issueNumber |-> req.number, isPullRequest |-> FALSE,
   commentBody |-> IF req.event = "issue_comment" THEN req.comment ELSE ""]

\* A variant of the router that awaits handleIssue outside any try block.
settleUncaught(via, rejected) ==
  IF ~rejected THEN "returned"
  ELSE IF via \in {"issues", "issue_comment"} THEN "unhandled rejection"
  ELSE "rejected to the caller"

\* How the caller's await of handleIssue ends (server.js 83-96, 119-131): the
\* router catches and logs a rejection and its handler returns; another
\* caller of the exported function gets the rejection.
settle(via, rejected) ==
  IF ~rejected THEN "returned"
  ELSE IF via \in {"issues", "issue_comment"} THEN "logged by the router"
  ELSE "rejected to the caller"

Finished(r) == run[r].pc \in {"done", "archived"}

RECURSIVE Sum(_, _)
Sum(f, S) == IF S = {} THEN 0
             ELSE LET x == CHOOSE y \in S : TRUE IN f[x] + Sum(f, S \ {x})


\* When a run starts, the runs that have ended are forgotten, but for the
\* last of them: its work item, whether every command of it succeeded and
\* what its fix stage did; it also carries the session's count of failed
\* commands.
LastFinished == Max({q \in Runs : Finished(q)})

archive(q) ==
  IF q = LastFinished
  THEN [IdleRun EXCEPT !.pc = "archived",
                       !.issueNumber = run[q].issueNumber,
                       !.isPullRequest = run[q].isPullRequest]
  ELSE [IdleRun EXCEPT !.pc = "archived"]

archiveHist(q) ==
  IF q = LastFinished
  THEN LET clean == IF run[q].pc = "done" THEN hist[q].faults = 0 ELSE hist[q].clean
       IN [NoHist EXCEPT
          !.fixEffect = IF clean THEN hist[q].fixEffect ELSE "none",
          !.prs = IF clean THEN hist[q].prs ELSE 0,
          !.clean = clean,
          !.faults = Sum([p \in Runs |-> IF Finished(p) THEN hist[p].faults ELSE 0], Runs)]
  ELSE NoHist

\* Entry of handleIssue for run r with work item w.
enter(r, via, w) ==
  /\ run' = [q \in Runs |->
              IF q = r THEN
                [IdleRun EXCEPT !.pc = "analyze", !.via = via,
                                !.issueNumber = w.issueNumber,
                                !.isPullRequest = w.isPullRequest,
                                !.commentBody = w.commentBody]
              ELSE IF Finished(q) THEN archive(q) ELSE run[q]]
  /\ hist' = [q \in Runs |->
              IF q = r THEN [NoHist EXCEPT !.before = localBranches, !.startHead = head]
              ELSE IF Finished(q) THEN archiveHist(q) ELSE hist[q]]

\* The model follows at most two runs at a time.
CanStart(r) ==
  /\ r = started + 1
  /\ r \in Runs
  /\ serial => \A q \in Runs : q < r => Finished(q)
  /\ \A p, q \in Runs : (p < q /\ q < r) => (Finished(p) \/ Finished(q))

\* app.post('/webhook/github'): one delivery, up to the response and the
\* call of handleIssue.
webhook(r) ==
  /\ CanStart(r)
  /\ started' = r
  /\ \E req \in Requests :
       \* without a secret the signature header is never read
       /\ ~webhookSecret => req.signature = Absent
       /\ request' = [q \in Runs |-> IF q = r THEN req
                                      ELSE IF Finished(q) THEN NoRequest ELSE request[q]]
       /\ LET v == verifySignature(webhookSecret, req)
              to == route(mentionUser, req)
              Answer(x) == response' = [q \in Runs |-> IF q = r THEN x
                                          ELSE IF Finished(q) THEN "none" ELSE response[q]]
              Skip(end) ==
                      /\ run' = [q \in Runs |->
                                   IF q = r THEN [IdleRun EXCEPT !.pc = "done", !.via = req.event,
                                                                 !.handler = end]
                                   ELSE IF Finished(q) THEN archive(q) ELSE run[q]]
                      /\ hist' = [q \in Runs |->
                                   IF Finished(q) THEN archiveHist(q) ELSE hist[q]]
          IN  \/ /\ v = "false"
                 /\ Answer("401 Invalid signature")
                 /\ Skip("returned")
              \/ /\ v = "RangeError"
                 \* the async handler rejects: the framework answers 500 or
                 \* the request is never answered
                 /\ \E x \in {"500", "no response"} : Answer(x)
                 /\ Skip("unhandled rejection")
              \/ /\ v = "true"
                 /\ ~to.dispatch
                 /\ Answer(to.message)
                 /\ Skip("returned")
              \/ /\ v = "true"
                 /\ to.dispatch
                 /\ Answer(to.message)
                 /\ enter(r, req.event, routerWorkItem(req))
  /\ UNCHANGED <<aside, config, workdir, origin, hosting>>

\* A direct call of the exported handleIssue.
call(r) ==
  /\ CanStart(r)
  /\ started' = r
  /\ \E w \in WorkItems : enter(r, "call", w)
  /\ request' = [q \in Runs |-> IF Finished(q) THEN NoRequest ELSE request[q]]
  /\ response' = [q \in Runs |-> IF Finished(q) THEN "none" ELSE response[q]]
  /\ UNCHANGED <<aside, config, workdir, origin, hosting>>

\* ------------------------------------------------------- handleIssue, steps
At(r, p) == r \in Runs /\ run[r].pc = p

\* h after the external command c; fault: it failed although the repository
\* state allowed it to succeed.
Cmd(h, c, fault) ==
  [h EXCEPT !.cmds = Append(@, c), !.faults = IF fault THEN @ + 1 ELSE @]

\* An external command may still fail for a reason outside the model.
MayFail == Sum([r \in Runs |-> hist[r].faults], Runs) < budget

\* The catch block of lines 486-518 is entered with the error.
catch(rec, msg) == [rec EXCEPT !.pc = "cleanupCheckout", !.error = msg]

\* postComment(owner, repo, number, body, isPullRequest): the comment as
\* recorded, delivered iff gh exited with code 0.
Comment(kind, rec, onPr, text, ok) ==
  [kind |-> kind, number |-> rec.issueNumber, pr |-> onPr, text |-> text,
   delivered |-> ok]

Posted(h, c) ==
  [h EXCEPT !.comments = Append(@, c), !.faults = IF c.delivered THEN @ ELSE @ + 1]

\* A variant without the canResolve check of line 256.
afterAnalysisUnchecked(a, isPullRequest) ==
  IF isPullRequest THEN "getPullRequestInfo" ELSE "checkoutNew"

\* Where the run goes after a parsed analysis (lines 256, 280).
afterAnalysis(a, isPullRequest) ==
  IF ~a.canResolve THEN "postCannotResolve"
  ELSE IF isPullRequest THEN "getPullRequestInfo"
  ELSE "checkoutNew"

\* Step 1 (lines 228-253): await runClaude(analysisPrompt), match, parse.
analyze(r) ==
  /\ At(r, "analyze")
  /\ \E out \in ClaudeFailures \cup AnalysisOutputs :
       LET e == analysisError(out)
       IN  /\ out \in ClaudeFailures => MayFail
           /\ run' = [run EXCEPT ![r] =
                IF e # "" THEN [@ EXCEPT !.pc = "postAnalysisFailed", !.error = e]
                ELSE LET a == JSONparse(jsonMatch(out))
                     IN  [@ EXCEPT !.analysis = a,
                                   !.pc = afterAnalysis(a, run[r].isPullRequest)]]
           /\ hist' = [hist EXCEPT ![r].claudeCalls = @ + 1,
                                   ![r].gave = assistantGave(out),
                                   ![r].killed = kills(out),
                                   ![r].faults = IF out \in ClaudeFailures THEN @ + 1 ELSE @]
  /\ UNCHANGED <<aside, config, started, request, response, workdir, origin, hosting>>

\* Lines 241-252: the comment of the analysis catch block, then return.
postAnalysisFailed(r) ==
  /\ At(r, "postAnalysisFailed")
  /\ \E ok \in BOOLEAN :
       /\ ok \/ MayFail
       /\ hist' = [hist EXCEPT ![r] =
            Posted(@, Comment("Analysis Failed", run[r], run[r].isPullRequest,
                              <<run[r].error>>, ok))]
       /\ run' = [run EXCEPT ![r].pc = "done", ![r].rejected = ~ok,
                               ![r].handler = settle(run[r].via, ~ok)]
  /\ UNCHANGED <<aside, config, started, request, response, workdir, origin, hosting>>

\* Lines 256-273: canResolve is falsy.
postCannotResolve(r) ==
  /\ At(r, "postCannotResolve")
  /\ \E ok \in BOOLEAN :
       /\ ok \/ MayFail
       /\ hist' = [hist EXCEPT ![r] =
            Posted(@, Comment("Cannot Resolve", run[r], run[r].isPullRequest,
                              <<run[r].analysis.reason, run[r].analysis.confidence>>, ok))]
       /\ run' = [run EXCEPT ![r].pc = "done", ![r].rejected = ~ok,
                               ![r].handler = settle(run[r].via, ~ok)]
  /\ UNCHANGED <<aside, config, started, request, response, workdir, origin, hosting>>

\* Line 282: gh pr view <n> --json headRefName,baseRefName
getPullRequestInfo(r) ==
  /\ At(r, "getPullRequestInfo")
  /\ \E ok \in BOOLEAN, base \in {PrBase(run[r].issueNumber)} :
       /\ ok \/ MayFail
       /\ LET n == run[r].issueNumber
              can == n \in PullRequests
          IN  /\ run' = [run EXCEPT ![r] =
                   IF can /\ ok
                   THEN [@ EXCEPT !.branchName = PrHead(n), !.baseBranch = base,
                                  !.pc = "gitFetch"]
                   ELSE catch(@, "Command failed: gh pr view")]
              /\ hist' = [hist EXCEPT ![r] = Cmd(@, <<"gh", "pr view">>, can /\ ~ok)]
  /\ UNCHANGED <<aside, config, started, request, response, workdir, origin, hosting>>

\* Line 287: git fetch origin <branchName>
gitFetch(r) ==
  /\ At(r, "gitFetch")
  /\ \E ok \in BOOLEAN :
       /\ ok \/ MayFail
       /\ LET can == run[r].branchName \in remoteBranches
          IN  /\ run' = [run EXCEPT ![r] =
                   IF can /\ ok THEN [@ EXCEPT !.pc = "gitCheckoutPr"]
                   ELSE catch(@, "Command failed: git fetch")]
              /\ hist' = [hist EXCEPT ![r] = Cmd(@, <<"git", "fetch">>, can /\ ~ok)]
  /\ UNCHANGED <<aside, config, started, request, response, workdir, origin, hosting>>

\* Line 288: git checkout <branchName>; a branch known only from origin is
\* created locally at origin's commit.
gitCheckoutPr(r) ==
  /\ At(r, "gitCheckoutPr")
  /\ \E ok \in BOOLEAN :
       /\ ok \/ MayFail
       /\ LET b == run[r].branchName
              can == b \in localBranches \cup remoteBranches
          IN  /\ run' = [run EXCEPT ![r] =
                   IF can /\ ok THEN [@ EXCEPT !.pc = "fix"]
                   ELSE catch(@, "Command failed: git checkout")]
              /\ hist' = [hist EXCEPT ![r] = Cmd(@, <<"git", "checkout">>, can /\ ~ok)]
              /\ IF can /\ ok
                 THEN /\ head' = b
                      /\ localBranches' = localBranches \cup {b}
                      /\ localCommits' = IF b \in localBranches THEN localCommits
                                         ELSE [localCommits EXCEPT ![b] = remoteCommits[b]]
                 ELSE UNCHANGED <<head, localBranches, localCommits>>
  /\ UNCHANGED <<aside, config, started, request, response, unstaged, staged, commitEdits,
                 origin, hosting>>

\* A variant with git checkout -B, which resets a branch that exists.
canCheckoutReset(b) == TRUE

\* git checkout -b <b> is refused when the branch exists.
canCheckoutNew(b) == b \notin localBranches

\* Lines 292-293: branchName = `autoclaude/issue-${issueNumber}`, then
\* git checkout -b <branchName>.
checkoutNew(r) ==
  /\ At(r, "checkoutNew")
  /\ \E ok \in BOOLEAN :
       /\ ok \/ MayFail
       /\ LET b == IssueBranch(run[r].issueNumber)
              can == canCheckoutNew(b)
          IN  /\ run' = [run EXCEPT ![r] =
                   IF can /\ ok THEN [@ EXCEPT !.branchName = b, !.pc = "fix"]
                   ELSE catch([@ EXCEPT !.branchName = b], "Command failed: git checkout -b")]
              /\ hist' = [hist EXCEPT ![r] =
                   [Cmd(@, <<"git", "checkout -b">>, can /\ ~ok) EXCEPT
                      !.created = can /\ ok]]
              /\ IF can /\ ok
                 THEN /\ head' = b
                      /\ localBranches' = localBranches \cup {b}
                      /\ localCommits' = [localCommits EXCEPT ![b] = localCommits[head]]
                 ELSE UNCHANGED <<head, localBranches, localCommits>>
  /\ UNCHANGED <<aside, config, started, request, response, unstaged, staged, commitEdits,
                 origin, hosting>>

\* What the assistant does to the working directory during the fix stage:
\* nothing, file edits left uncommitted, or file edits it commits itself.
FixEffects == {"none", "edit", "commit"}

\* Line 326: await runClaude(fixPrompt).  The assistant may edit files and,
\* despite the instructions, commit, before it exits or is killed.
fix(r) ==
  /\ At(r, "fix")
  /\ \E result \in {"ok"} \cup ClaudeFailures, effect \in FixEffects :
       /\ result # "ok" => MayFail
       /\ result = "spawn claude ENOENT" => effect = "none"
       /\ run' = [run EXCEPT ![r] =
            IF result = "ok" THEN [@ EXCEPT !.pc = "gitStatus"] ELSE catch(@, result)]
       /\ hist' = [hist EXCEPT ![r].claudeCalls = @ + 1, ![r].fixEffect = effect,
                               ![r].killed = kills(result),
                               ![r].faults = IF result = "ok" THEN @ ELSE @ + 1]
       /\ unstaged' = IF effect = "edit" THEN unstaged \cup {r} ELSE unstaged
       /\ IF effect = "commit"
          THEN /\ localCommits' = [localCommits EXCEPT ![head] = @ \cup {AsstCommit(r)}]
               /\ commitEdits' = [commitEdits EXCEPT ![AsstCommit(r)] = {r}]
          ELSE UNCHANGED <<localCommits, commitEdits>>
  /\ UNCHANGED <<aside, config, started, request, response, head, localBranches, staged,
                 origin, hosting>>

\* Lines 330-332: git status --porcelain
gitStatus(r) ==
  /\ At(r, "gitStatus")
  /\ \E ok \in BOOLEAN :
       /\ ok \/ MayFail
       /\ run' = [run EXCEPT ![r] =
            IF ok THEN [@ EXCEPT !.hasUncommittedChanges = (unstaged \cup staged # {}),
                                 !.pc = "gitLogOrigin"]
            ELSE catch(@, "Command failed: git status")]
       /\ hist' = [hist EXCEPT ![r] = Cmd(@, <<"git", "status">>, ~ok)]
  /\ UNCHANGED <<aside, config, started, request, response, workdir, origin, hosting>>

\* Lines 368, 398, 404, 409: the branch taken after the change check.
afterChangeCheck(uncommitted, newCommits, isPullRequest) ==
  IF ~uncommitted /\ ~newCommits THEN "noopCheckout"
  ELSE IF uncommitted THEN "gitAdd"
  ELSE IF isPullRequest THEN "gitPushPr"
  ELSE "gitPushNew"

\* Lines 337-351: git log origin/<branchName or baseBranch>..HEAD --oneline
gitLogOrigin(r) ==
  /\ At(r, "gitLogOrigin")
  /\ \E ok \in BOOLEAN :
       /\ ok \/ MayFail
       /\ LET ref == IF run[r].isPullRequest THEN run[r].branchName ELSE run[r].baseBranch
              can == ref \in remoteBranches
              new == (localCommits[head] \ remoteCommits[ref]) # {}
          IN  /\ run' = [run EXCEPT ![r] =
                   IF can /\ ok
                   THEN [@ EXCEPT !.hasNewCommits = new,
                                  !.pc = afterChangeCheck(run[r].hasUncommittedChanges,
                                                          new, run[r].isPullRequest)]
                   ELSE [@ EXCEPT !.pc = "gitLogLocal"]]
              /\ hist' = [hist EXCEPT ![r] = Cmd(@, <<"git", "log origin">>, can /\ ~ok)]
  /\ UNCHANGED <<aside, config, started, request, response, workdir, origin, hosting>>

\* Lines 352-364: the fallback, git log <baseBranch>..HEAD; on failure
\* hasNewCommits = false.
gitLogLocal(r) ==
  /\ At(r, "gitLogLocal")
  /\ \E ok \in BOOLEAN :
       /\ ok \/ MayFail
       /\ LET ref == run[r].baseBranch
              can == ref \in localBranches
              new == can /\ ok /\ (localCommits[head] \ localCommits[ref]) # {}
          IN  /\ run' = [run EXCEPT ![r] =
                   [@ EXCEPT !.hasNewCommits = new,
                             !.pc = afterChangeCheck(run[r].hasUncommittedChanges,
                                                     new, run[r].isPullRequest)]]
              /\ hist' = [hist EXCEPT ![r] = Cmd(@, <<"git", "log">>, can /\ ~ok)]
  /\ UNCHANGED <<aside, config, started, request, response, workdir, origin, hosting>>

\* git checkout main, in REPO_PATH
checkoutMain ==
  /\ head' = Main
  /\ UNCHANGED <<localBranches, localCommits, unstaged, staged, commitEdits>>

\* git branch -D <b>: refused for a missing branch and for the branch
\* checked out.
canDelete(b) == b \in localBranches /\ b # head

\* Commits that no local or remote branch holds any more are forgotten.
deleteBranch(b) ==
  /\ localBranches' = localBranches \ {b}
  /\ localCommits' = [localCommits EXCEPT ![b] = {}]
  /\ commitEdits' = [c \in Commits |->
       IF \E x \in Branches : c \in remoteCommits[x] \/ (x # b /\ c \in localCommits[x])
       THEN commitEdits[c] ELSE {}]
  /\ UNCHANGED <<head, unstaged, staged>>

\* Lines 370-375: git checkout main of the no-change path.
noopCheckout(r) ==
  /\ At(r, "noopCheckout")
  /\ \E ok \in BOOLEAN :
       /\ ok \/ MayFail
       /\ run' = [run EXCEPT ![r] =
            IF ok THEN [@ EXCEPT !.pc = IF run[r].isPullRequest THEN "postNoChanges"
                                        ELSE "noopDelete"]
            ELSE catch(@, "Command failed: git checkout main")]
       /\ hist' = [hist EXCEPT ![r] = Cmd(@, <<"git", "checkout main">>, ~ok)]
       /\ IF ok THEN checkoutMain ELSE UNCHANGED workdir
  /\ UNCHANGED <<aside, config, started, request, response, origin, hosting>>

\* Line 372: git branch -D <branchName> of the no-change path (issue runs).
noopDelete(r) ==
  /\ At(r, "noopDelete")
  /\ \E ok \in BOOLEAN :
       /\ ok \/ MayFail
       /\ LET b == run[r].branchName
              can == canDelete(b)
          IN  /\ run' = [run EXCEPT ![r] =
                   IF can /\ ok THEN [@ EXCEPT !.pc = "postNoChanges"]
                   ELSE catch(@, "Command failed: git branch -D")]
              /\ hist' = [hist EXCEPT ![r] = Cmd(@, <<"git", "branch -D">>, can /\ ~ok)]
              /\ IF can /\ ok THEN deleteBranch(b) ELSE UNCHANGED workdir
  /\ UNCHANGED <<aside, config, started, request, response, origin, hosting>>

\* Lines 377-394: the "no code changes were necessary" comment, then return;
\* it is inside the try block, so a failed post enters the catch block.
postNoChanges(r) ==
  /\ At(r, "postNoChanges")
  /\ \E ok \in BOOLEAN :
       /\ ok \/ MayFail
       /\ hist' = [hist EXCEPT ![r] =
            Posted(@, Comment("No Changes", run[r], run[r].isPullRequest,
                              <<run[r].analysis.reason, run[r].analysis.approach>>, ok))]
       /\ run' = [run EXCEPT ![r] =
            IF ok THEN [@ EXCEPT !.pc = "done", !.handler = settle(run[r].via, FALSE)]
            ELSE catch(@, "Failed to post comment")]
  /\ UNCHANGED <<aside, config, started, request, response, workdir, origin, hosting>>

\* Line 399: git add -A
gitAdd(r) ==
  /\ At(r, "gitAdd")
  /\ \E ok \in BOOLEAN :
       /\ ok \/ MayFail
       /\ run' = [run EXCEPT ![r] =
            IF ok THEN [@ EXCEPT !.pc = "gitCommit"]
            ELSE catch(@, "Command failed: git add -A")]
       /\ hist' = [hist EXCEPT ![r] = Cmd(@, <<"git", "add -A">>, ~ok)]
       /\ IF ok THEN /\ staged' = staged \cup unstaged
                     /\ unstaged' = {}
          ELSE UNCHANGED <<staged, unstaged>>
  /\ UNCHANGED <<aside, config, started, request, response, head, localBranches,
                 localCommits, commitEdits, origin, hosting>>

\* A variant in which every run has a working tree and an index of its own:
\* its commit takes its own edits onto its own branch.
gitCommitIsolated(r) ==
  /\ At(r, "gitCommit")
  /\ LET can == r \in staged
         b == run[r].branchName
     IN  /\ run' = [run EXCEPT ![r] =
              IF can THEN [@ EXCEPT !.pc = "gitPushNew"]
              ELSE catch(@, "Command failed: git commit")]
         /\ hist' = [hist EXCEPT ![r] = Cmd(@, <<"git", "commit">>, FALSE)]
         /\ IF can
            THEN /\ localCommits' = [localCommits EXCEPT ![b] = @ \cup {RunCommit(r)}]
                 /\ commitEdits' = [commitEdits EXCEPT ![RunCommit(r)] = {r}]
                 /\ staged' = staged \ {r}
            ELSE UNCHANGED <<localCommits, commitEdits, staged>>
  /\ UNCHANGED <<aside, config, started, request, response, head, localBranches, unstaged,
                 origin, hosting>>

\* Lines 400-403: git commit -m "<commitMessage>"; git refuses an empty index.
gitCommit(r) ==
  /\ At(r, "gitCommit")
  /\ \E ok \in BOOLEAN :
       /\ ok \/ MayFail
       /\ LET can == staged # {}
          IN  /\ run' = [run EXCEPT ![r] =
                   IF can /\ ok
                   THEN [@ EXCEPT !.pc = IF run[r].isPullRequest THEN "gitPushPr"
                                         ELSE "gitPushNew"]
                   ELSE catch(@, "Command failed: git commit")]
              /\ hist' = [hist EXCEPT ![r] = Cmd(@, <<"git", "commit">>, can /\ ~ok)]
              /\ IF can /\ ok
                 THEN /\ localCommits' = [localCommits EXCEPT ![head] = @ \cup {RunCommit(r)}]
                      /\ commitEdits' = [commitEdits EXCEPT ![RunCommit(r)] = staged]
                      /\ staged' = {}
                 ELSE UNCHANGED <<localCommits, commitEdits, staged>>
  /\ UNCHANGED <<aside, config, started, request, response, head, localBranches, unstaged,
                 origin, hosting>>

\* git push [-u] origin <b>: needs the local branch, and origin accepts only
\* a fast-forward of its branch.
canPush(b) ==
  /\ b \in localBranches
  /\ b \in remoteBranches => remoteCommits[b] \subseteq localCommits[b]

push(b) ==
  /\ remoteBranches' = remoteBranches \cup {b}
  /\ remoteCommits' = [remoteCommits EXCEPT ![b] = localCommits[b]]

\* Line 411: git push origin <branchName> (PR-comment runs)
gitPushPr(r) ==
  /\ At(r, "gitPushPr")
  /\ \E ok \in BOOLEAN :
       /\ ok \/ MayFail
       /\ LET b == run[r].branchName
              can == canPush(b)
          IN  /\ run' = [run EXCEPT ![r] =
                   IF can /\ ok THEN [@ EXCEPT !.pc = "postChangesPushed"]
                   ELSE catch(@, "Command failed: git push")]
              /\ hist' = [hist EXCEPT ![r] = Cmd(@, <<"git", "push">>, can /\ ~ok)]
              /\ IF can /\ ok THEN push(b) ELSE UNCHANGED origin
  /\ UNCHANGED <<aside, config, started, request, response, workdir, hosting>>

\* Lines 415-433: the "Changes Pushed" comment on the pull request.
postChangesPushed(r) ==
  /\ At(r, "postChangesPushed")
  /\ \E ok \in BOOLEAN :
       /\ ok \/ MayFail
       /\ hist' = [hist EXCEPT ![r] =
            Posted(@, Comment("Changes Pushed", run[r], TRUE,
                              <<run[r].analysis.confidence,
                                run[r].analysis.estimatedComplexity,
                                run[r].analysis.approach>>, ok))]
       /\ run' = [run EXCEPT ![r] =
            IF ok THEN [@ EXCEPT !.pc = "finalCheckout"]
            ELSE catch(@, "Failed to post comment")]
  /\ UNCHANGED <<aside, config, started, request, response, workdir, origin, hosting>>

\* Line 436: git push -u origin <branchName> (issue runs)
gitPushNew(r) ==
  /\ At(r, "gitPushNew")
  /\ \E ok \in BOOLEAN :
       /\ ok \/ MayFail
       /\ LET b == run[r].branchName
              can == canPush(b)
          IN  /\ run' = [run EXCEPT ![r] =
                   IF can /\ ok THEN [@ EXCEPT !.pc = "createPullRequest"]
                   ELSE catch(@, "Command failed: git push -u")]
              /\ hist' = [hist EXCEPT ![r] = Cmd(@, <<"git", "push -u">>, can /\ ~ok)]
              /\ IF can /\ ok THEN push(b) ELSE UNCHANGED origin
  /\ UNCHANGED <<aside, config, started, request, response, workdir, hosting>>

\* gh pr create (lines 120-167): the promise the gh-CLI createPullRequest
\* returns resolves with {number, html_url} when gh exits with code 0 and
\* rejects otherwise; it never resolves with null.
createPullRequestSettles(exitOk) == IF exitOk THEN "pr" ELSE "reject"

\* Lines 440-454: of prBody, the issue its "Fixes #<n>" line names.
prBody(issueNumber) == issueNumber

\* A variant without the linking comment of lines 466-481.
afterCreatePullRequestSilent(settled) ==
  IF settled = "reject" THEN "cleanupCheckout" ELSE "finalCheckout"

\* What the orchestrator does with it (lines 456-481): a rejection is thrown
\* by the await into the catch block; `if (pr)` guards the linking comment.
afterCreatePullRequest(settled) ==
  IF settled = "reject" THEN "cleanupCheckout"
  ELSE IF settled = "pr" THEN "postFixCreated"
  ELSE "finalCheckout"

\* gh pr create needs the head branch on origin with commits the base lacks,
\* and refuses a second pull request for the same head.
canCreatePr(b, base) ==
  /\ b \in remoteBranches
  /\ remoteCommits[b] # {}
  /\ ~\E p \in pullRequests : p.head = b /\ p.base = base

\* Lines 456-463: await createPullRequest(..., branchName, baseBranch)
createPullRequest(r) ==
  /\ At(r, "createPullRequest")
  /\ \E ok \in BOOLEAN :
       /\ ok \/ MayFail
       /\ LET b == run[r].branchName
              base == run[r].baseBranch
              can == canCreatePr(b, base)
              settled == createPullRequestSettles(can /\ ok)
          IN  /\ run' = [run EXCEPT ![r] =
                   IF afterCreatePullRequest(settled) = "cleanupCheckout"
                   THEN catch(@, "gh pr create exited with code 1")
                   ELSE [@ EXCEPT !.pc = afterCreatePullRequest(settled)]]
              /\ hist' = [hist EXCEPT ![r] =
                   [Cmd(@, <<"gh", "pr create">>, can /\ ~ok) EXCEPT
                      !.prs = IF can /\ ok THEN @ + 1 ELSE @]]
              /\ pullRequests' = IF can /\ ok
                                 THEN pullRequests \cup
                                        {[head |-> b, base |-> base, by |-> r,
                                          fixes |-> prBody(run[r].issueNumber)]}
                                 ELSE pullRequests
  /\ UNCHANGED <<aside, config, started, request, response, workdir, origin>>

\* Lines 466-481: the "Fix Created" comment on the issue.
postFixCreated(r) ==
  /\ At(r, "postFixCreated")
  /\ \E ok \in BOOLEAN :
       /\ ok \/ MayFail
       /\ hist' = [hist EXCEPT ![r] =
            Posted(@, Comment("Fix Created", run[r], FALSE, <<"pull request link">>, ok))]
       /\ run' = [run EXCEPT ![r] =
            IF ok THEN [@ EXCEPT !.pc = "finalCheckout"]
            ELSE catch(@, "Failed to post comment")]
  /\ UNCHANGED <<aside, config, started, request, response, workdir, origin, hosting>>

\* Line 485: git checkout main, the last statement of the try block.
finalCheckout(r) ==
  /\ At(r, "finalCheckout")
  /\ \E ok \in BOOLEAN :
       /\ ok \/ MayFail
       /\ run' = [run EXCEPT ![r] =
            IF ok THEN [@ EXCEPT !.pc = "done", !.handler = settle(run[r].via, FALSE)]
            ELSE catch(@, "Command failed: git checkout main")]
       /\ hist' = [hist EXCEPT ![r] = Cmd(@, <<"git", "checkout main">>, ~ok)]
       /\ IF ok THEN checkoutMain ELSE UNCHANGED workdir
  /\ UNCHANGED <<aside, config, started, request, response, origin, hosting>>

\* A variant without the isPullRequest test of line 492.
cleanupDeletesAnyBranch(isPullRequest, branchName) == branchName # NoBranch

\* Line 492: the catch block deletes the branch when the run is not a
\* PR-comment run and branchName has been assigned.
cleanupDeletes(isPullRequest, branchName) ==
  ~isPullRequest /\ branchName # NoBranch

\* Lines 490-499: git checkout main of the catch block; when it throws, the
\* deletion is skipped and the error is logged.
cleanupCheckout(r) ==
  /\ At(r, "cleanupCheckout")
  /\ \E ok \in BOOLEAN :
       /\ ok \/ MayFail
       /\ run' = [run EXCEPT ![r].pc =
            IF ok /\ cleanupDeletes(run[r].isPullRequest, run[r].branchName)
            THEN "cleanupDelete" ELSE "postFixFailed"]
       /\ hist' = [hist EXCEPT ![r] = Cmd(@, <<"git", "checkout main">>, ~ok)]
       /\ IF ok THEN checkoutMain ELSE UNCHANGED workdir
  /\ UNCHANGED <<aside, config, started, request, response, origin, hosting>>

\* Lines 493-495: git branch -D <branchName>, its failure swallowed.
cleanupDelete(r) ==
  /\ At(r, "cleanupDelete")
  /\ \E ok \in BOOLEAN :
       /\ ok \/ MayFail
       /\ LET b == run[r].branchName
              can == canDelete(b)
          IN  /\ run' = [run EXCEPT ![r].pc = "postFixFailed"]
              /\ hist' = [hist EXCEPT ![r] = Cmd(@, <<"git", "branch -D">>, can /\ ~ok)]
              /\ IF can /\ ok THEN deleteBranch(b) ELSE UNCHANGED workdir
  /\ UNCHANGED <<aside, config, started, request, response, origin, hosting>>

\* Lines 501-517: the "Fix Failed" comment; a failed post rejects handleIssue.
postFixFailed(r) ==
  /\ At(r, "postFixFailed")
  /\ \E ok \in BOOLEAN :
       /\ ok \/ MayFail
       /\ hist' = [hist EXCEPT ![r] =
            Posted(@, Comment("Fix Failed", run[r], run[r].isPullRequest,
                              <<run[r].analysis.confidence, run[r].analysis.approach,
                                run[r].error>>, ok))]
       /\ run' = [run EXCEPT ![r].pc = "done", ![r].rejected = ~ok,
                               ![r].handler = settle(run[r].via, ~ok)]
  /\ UNCHANGED <<aside, config, started, request, response, workdir, origin, hosting>>

\* ----------------------------------------------------------- specification
handleIssue(r) ==
  \/ analyze(r) \/ postAnalysisFailed(r) \/ postCannotResolve(r)
  \/ getPullRequestInfo(r) \/ gitFetch(r) \/ gitCheckoutPr(r) \/ checkoutNew(r)
  \/ fix(r) \/ gitStatus(r) \/ gitLogOrigin(r) \/ gitLogLocal(r)
  \/ noopCheckout(r) \/ noopDelete(r) \/ postNoChanges(r)
  \/ gitAdd(r) \/ gitCommit(r)
  \/ gitPushPr(r) \/ postChangesPushed(r)
  \/ gitPushNew(r) \/ createPullRequest(r) \/ postFixCreated(r)
  \/ finalCheckout(r)
  \/ cleanupCheckout(r) \/ cleanupDelete(r) \/ postFixFailed(r)

Next == \E r \in Runs : webhook(r) \/ call(r) \/ handleIssue(r)

\* Deliveries and calls arrive one after the other: a run starts only when
\* the runs before it have ended.
\* The deployment the README describes: WEBHOOK_SECRET and
\* GITHUB_MENTION_USER are set.
Init ==
  Start(TRUE, TRUE) /\ serial = TRUE /\ budget = MaxFaults /\ claude = NoClaude
  /\ embed = NoEmbed /\ committing = NoCommitting

Spec == Init /\ [][Next]_vars

\* Any deployment: with or without WEBHOOK_SECRET, with or without
\* GITHUB_MENTION_USER.
InitAnyConfig ==
  \E secret \in BOOLEAN, mention \in BOOLEAN :
     /\ Start(secret, mention)
     /\ serial = TRUE /\ budget = MaxRouterFaults /\ claude = NoClaude
     /\ embed = NoEmbed /\ committing = NoCommitting

SpecAnyConfig == InitAnyConfig /\ [][Next]_vars

\* --------------------------------------------------- runClaude, by events
\* One invocation of runClaude (lines 12-63), one step per event callback.
\* Output arrives in chunks, here of one character: " " is whitespace, "x"
\* is not.
Chunks == {<<" ">>, <<"x">>}

RECURSIVE trimStart(_)
trimStart(s) == IF s # <<>> /\ Head(s) = " " THEN trimStart(Tail(s)) ELSE s

RECURSIVE trimEnd(_)
trimEnd(s) ==
  IF s # <<>> /\ s[Len(s)] = " " THEN trimEnd(SubSeq(s, 1, Len(s) - 1)) ELSE s

\* String.prototype.trim
trim(s) == trimEnd(trimStart(s))

\* The exit status the close event reports: 0, non-zero, or null for a
\* subprocess ended by a signal.
ExitCodes == {"0", "1", "null"}

\* The errors the error event reports (the subprocess could not be spawned,
\* or could not be killed).
SpawnErrors == {"spawn claude ENOENT", "kill EPERM"}

\* resolve(v) and reject(e) of the promise: only the first call settles it.
settled(c, event, state, value) ==
  IF c.state = "pending"
  THEN [c EXCEPT !.state = state, !.value = value, !.first = event,
                 !.calls = @ + 1]
  ELSE [c EXCEPT !.calls = @ + 1]

\* Lines 16-24, 30, 60-61: the subprocess is spawned, the timer armed, the
\* prompt written.
Spawned ==
  [NoClaude EXCEPT !.timer = "armed", !.state = "pending"]

others == <<webhookSecret, mentionUser, serial, budget, started, request, response,
            run, hist, head, localBranches, localCommits, unstaged, staged,
            remoteBranches, remoteCommits, pullRequests, commitEdits>>

\* Lines 35-38: stdout += data
onStdout ==
  /\ claude.state # "none"
  /\ ~claude.closed
  /\ Len(claude.stdout) < MaxChunks
  /\ \E d \in Chunks : claude' = [claude EXCEPT !.stdout = @ \o d]
  /\ UNCHANGED <<others, embed, committing>>

\* Lines 40-43: stderr += data
onStderr ==
  /\ claude.state # "none"
  /\ ~claude.closed
  /\ Len(claude.stderr) < MaxChunks
  /\ claude' = [claude EXCEPT !.stderr = Append(@, "e")]
  /\ UNCHANGED <<others, embed, committing>>

\* Lines 30-33: the timer callback kills the subprocess and rejects.
onTimeout ==
  /\ claude.timer = "armed"
  /\ claude' = settled([claude EXCEPT !.timer = "fired", !.killed = TRUE],
                       "timeout", "rejected", <<"Claude CLI timed out">>)
  /\ UNCHANGED <<others, embed, committing>>

\* A variant of the close callback that does not look at the exit code.
closeResultAnyCode(code, stdout, stderr) == <<"resolved", trim(stdout)>>

\* Lines 47-51: what the close callback settles the promise with.
closeResult(code, stdout, stderr) ==
  IF code = "0" THEN <<"resolved", trim(stdout)>>
  ELSE <<"rejected", <<"Claude exited with code", code, stderr>> >>

\* Lines 45-52: the close event, once per subprocess.
onClose ==
  /\ claude.state # "none"
  /\ ~claude.closed
  /\ \E code \in ExitCodes :
       LET res == closeResult(code, claude.stdout, claude.stderr)
       IN  claude' = settled([claude EXCEPT !.closed = TRUE, !.code = code,
                                            !.timer = IF @ = "armed" THEN "cleared" ELSE @],
                             "close", res[1], res[2])
  /\ UNCHANGED <<others, embed, committing>>

\* Lines 54-57: the error event.
onError ==
  /\ claude.state # "none"
  /\ ~claude.errored
  /\ \E err \in SpawnErrors :
       claude' = settled([claude EXCEPT !.errored = TRUE,
                                        !.timer = IF @ = "armed" THEN "cleared" ELSE @],
                         "error", "rejected", <<err>>)
  /\ UNCHANGED <<others, embed, committing>>

runClaude == onStdout \/ onStderr \/ onTimeout \/ onClose \/ onError

\* runClaude has just been called, in the deployment of Init.
InitRunClaude ==
  /\ Start(TRUE, TRUE) /\ serial = TRUE /\ budget = 0 /\ claude = Spawned
  /\ embed = NoEmbed /\ committing = NoCommitting

SpecRunClaude == InitRunClaude /\ [][runClaude]_vars

\* Lines 542-573, the runClaude of the REST handler: it spawns the
\* subprocess and arms no timer.
SpawnedRest == [NoClaude EXCEPT !.state = "pending"]

\* Either runClaude of the file has just been called.
InitRunClaudeEither ==
  /\ Start(TRUE, TRUE) /\ serial = TRUE /\ budget = 0
  /\ claude \in {Spawned, SpawnedRest}
  /\ embed = NoEmbed /\ committing = NoCommitting

\* The event loop runs the callback of a timer that stays armed; nothing
\* makes the subprocess write, exit or fail.
SpecRunClaudeFair ==
  InitRunClaudeEither /\ [][runClaude]_vars /\ WF_vars(onTimeout)

\* ------------------------------------------------- overlapping deliveries
\* The steps of a run the router started: isPullRequest is false (see
\* routerWorkItem), so the steps of a PR-comment run are never taken; and
\* when no command fails for a reason outside the repository, neither is the
\* fallback git log of lines 352-364.
handleIssueRouted(r) ==
  \/ analyze(r) \/ postAnalysisFailed(r) \/ postCannotResolve(r)
  \/ checkoutNew(r) \/ fix(r) \/ gitStatus(r) \/ gitLogOrigin(r)
  \/ noopCheckout(r) \/ noopDelete(r) \/ postNoChanges(r)
  \/ gitAdd(r) \/ gitCommit(r)
  \/ gitPushNew(r) \/ createPullRequest(r) \/ postFixCreated(r)
  \/ finalCheckout(r)
  \/ cleanupCheckout(r) \/ cleanupDelete(r) \/ postFixFailed(r)

NextRace == \E r \in Runs : webhook(r) \/ handleIssueRouted(r)

\* server.js 115-131: the router answers, then awaits handleIssue inside its
\* async callback; the next delivery is served while that await is pending.
\* Every command succeeds when the repository allows it.
InitRace ==
  /\ Start(TRUE, TRUE) /\ serial = FALSE /\ budget = 0 /\ claude = NoClaude
  /\ embed = NoEmbed /\ committing = NoCommitting

SpecRace == InitRace /\ [][NextRace]_vars

\* ------------------------------------------------------- the commit step
\* The characters of an issue title: a double quote, a space, any other
\* character.
TitleChars == {"DQUOTE", "SPACE", "x"}

RECURSIVE TitlesUpTo(_)
TitlesUpTo(k) ==
  IF k = 0 THEN {<<>>}
  ELSE LET shorter == TitlesUpTo(k - 1)
       IN  shorter \cup {Append(s, c) : s \in {x \in shorter : Len(x) = k - 1},
                                         c \in TitleChars}

\* Lines 400-402: commitMessage.  The fixed parts of the template are single
\* tokens.
commitMessage(isPullRequest, issueNumber, issueTitle) ==
  IF isPullRequest
  THEN <<"fix: address review comments on PR #", issueNumber>>
  ELSE <<"fix: resolve issue #", issueNumber, " - ">> \o issueTitle

\* Line 403: the text after `git commit -m ` in the command line handed to
\* exec: the message between two double quotes.
commitArguments(message) == <<"DQUOTE">> \o message \o <<"DQUOTE">>

\* exec runs its command line in a shell.  The words the shell makes of a
\* text: a double quote opens or closes a quoted stretch and is removed, a
\* space outside quotes ends a word; a quote left open is a syntax error.
RECURSIVE shellWords(_, _, _, _, _)
shellWords(text, words, word, inWord, quoted) ==
  IF text = <<>> THEN
    IF quoted THEN [error |-> TRUE, words |-> <<>>]
    ELSE [error |-> FALSE, words |-> IF inWord THEN Append(words, word) ELSE words]
  ELSE IF text[1] = "DQUOTE" THEN shellWords(Tail(text), words, word, TRUE, ~quoted)
  ELSE IF text[1] = "SPACE" /\ ~quoted THEN
    shellWords(Tail(text), IF inWord THEN Append(words, word) ELSE words, <<>>, FALSE, FALSE)
  ELSE shellWords(Tail(text), words, Append(word, text[1]), TRUE, quoted)

\* git commit -m <msg> [<pathspec>...]: the first word is the message; a
\* further word is a pathspec, which matches no file of the repository.
shellCommit(text) ==
  LET sh == shellWords(text, <<>>, <<>>, FALSE, FALSE)
  IN  IF sh.error THEN [ok |-> FALSE, message |-> <<>>]
      ELSE IF Len(sh.words) # 1 THEN [ok |-> FALSE, message |-> <<>>]
      ELSE [ok |-> TRUE, message |-> sh.words[1]]

\* A run at line 397: the no-change return of line 368 was not taken, so
\* there are uncommitted changes or new commits.
AtCommitStep ==
  {[pc |-> "check", isPullRequest |-> pr, issueNumber |-> IF pr THEN "7" ELSE "42",
    issueTitle |-> title, hasUncommittedChanges |-> changes[1],
    hasNewCommits |-> changes[2], cmds |-> <<>>, message |-> <<>>] :
     pr \in BOOLEAN, title \in TitlesUpTo(MaxTitle),
     changes \in {<<TRUE, FALSE>>, <<TRUE, TRUE>>, <<FALSE, TRUE>>}}

\* Lines 398-399: git add -A when there are uncommitted changes.
commitAdd ==
  /\ committing.pc = "check"
  /\ committing.hasUncommittedChanges
  /\ committing' = [committing EXCEPT !.pc = "commit", !.cmds = Append(@, "git add -A")]
  /\ UNCHANGED <<others, claude, embed>>

\* Lines 400-403: git commit -m "<commitMessage>".
commitExec ==
  /\ committing.pc = "commit"
  /\ LET m == commitMessage(committing.isPullRequest, committing.issueNumber,
                            committing.issueTitle)
         done == shellCommit(commitArguments(m))
     IN  committing' = [committing EXCEPT !.pc = IF done.ok THEN "push" ELSE "catch",
                                          !.cmds = Append(@, "git commit"),
                                          !.message = done.message]
  /\ UNCHANGED <<others, claude, embed>>

\* Lines 404-406: the assistant already committed; no commit step.
commitSkip ==
  /\ committing.pc = "check"
  /\ ~committing.hasUncommittedChanges
  /\ committing' = [committing EXCEPT !.pc = "push"]
  /\ UNCHANGED <<others, claude, embed>>

commitStep == commitAdd \/ commitExec \/ commitSkip

InitCommitStep ==
  /\ Start(TRUE, TRUE) /\ serial = TRUE /\ budget = 0 /\ claude = NoClaude
  /\ embed = NoEmbed /\ committing \in AtCommitStep

SpecCommitStep == InitCommitStep /\ [][commitStep]_vars

\* ------------------------------------------- analysis fields into bodies
\* The characters of a field: a backslash, the letter n, a line feed, any
\* other character.
Chars == {"BACKSLASH", "n", "LF", "x"}

RECURSIVE SeqsUpTo(_)
SeqsUpTo(k) ==
  IF k = 0 THEN {<<>>}
  ELSE LET shorter == SeqsUpTo(k - 1)
       IN  shorter \cup {Append(s, c) : s \in {x \in shorter : Len(x) = k - 1},
                                         c \in Chars}

\* The values JSON.parse gives a field: a string, or something else (a
\* number, null, an array).
FieldValues ==
  {[type |-> "string", chars |-> s] : s \in SeqsUpTo(MaxText)}
    \cup {[type |-> "number", chars |-> <<>>]}

\* str.replace(/\\n/g, '\n'): every backslash followed by n, from left to
\* right, becomes one line feed.
RECURSIVE replaceAll(_)
replaceAll(s) ==
  IF s = <<>> THEN <<>>
  ELSE IF Len(s) >= 2 /\ s[1] = "BACKSLASH" /\ s[2] = "n"
    THEN <<"LF">> \o replaceAll(SubSeq(s, 3, Len(s)))
  ELSE <<s[1]>> \o replaceAll(Tail(s))

\* normalizeNewlines (lines 530-533)
normalizeNewlines(str) ==
  IF str.type # "string" THEN str ELSE [str EXCEPT !.chars = replaceAll(str.chars)]

\* The file holds two handleIssue: the gh-CLI one (lines 172-519) and the
\* REST one (lines 640-824).  A field of the analysis either of them has just
\* parsed:
ParsedFields ==
  {[handler |-> hd, pc |-> "parsed", value |-> v,
    body |-> [type |-> "undefined", chars |-> <<>>]] :
     hd \in {"gh", "rest"}, v \in FieldValues}

\* Lines 683-688 (REST handleIssue): string fields are normalized after the
\* parse.
normalizeFields ==
  /\ embed.handler = "rest"
  /\ embed.pc = "parsed"
  /\ embed' = [embed EXCEPT !.pc = "ready",
                            !.value = IF @.type = "string" THEN normalizeNewlines(@) ELSE @]
  /\ UNCHANGED <<others, claude, committing>>

\* REST handleIssue: the field goes into the body of a comment or of the
\* pull request (lines 708-821).
embedRest ==
  /\ embed.handler = "rest"
  /\ embed.pc = "ready"
  /\ embed' = [embed EXCEPT !.pc = "posted", !.body = embed.value]
  /\ UNCHANGED <<others, claude, committing>>

\* gh-CLI handleIssue: the field goes into the body as JSON.parse gave it
\* (parsed at line 234; embedded at lines 265-267, 386-389, 427-429, 449-451,
\* 510-511).
embedGh ==
  /\ embed.handler = "gh"
  /\ embed.pc = "parsed"
  /\ embed' = [embed EXCEPT !.pc = "posted", !.body = embed.value]
  /\ UNCHANGED <<others, claude, committing>>

embedField == normalizeFields \/ embedRest \/ embedGh

InitEmbed ==
  /\ Start(TRUE, TRUE) /\ serial = TRUE /\ budget = 0 /\ claude = NoClaude
  /\ embed \in ParsedFields /\ committing = NoCommitting

SpecEmbed == InitEmbed /\ [][embedField]_vars

TypeOK ==
  /\ started \in 0..MaxRuns
  /\ head \in Branches
  /\ localBranches \subseteq Branches
  /\ Main \in localBranches
  /\ unstaged \subseteq Runs
  /\ staged \subseteq Runs

\* ------------------------------------------------------------------ claims
\* Run r is a run of handleIssue that has ended.
Ran(r) == run[r].pc = "done" /\ hist[r].claudeCalls > 0

\* Run r is inside handleIssue or has ended it.
Entered(r) == run[r].pc \notin {"idle", "done", "archived"} \/ Ran(r)

Commands(r) == {hist[r].cmds[i] : i \in DOMAIN hist[r].cmds}
Kinds(r) == {hist[r].comments[i].kind : i \in DOMAIN hist[r].comments}
Delivered(r) == {i \in DOMAIN hist[r].comments : hist[r].comments[i].delivered}

\* The terminal outcome of a run is the one its last comment announces.
Outcome(r) ==
  IF hist[r].comments = <<>> THEN "none"
  ELSE hist[r].comments[Len(hist[r].comments)].kind

\* C1: after a run of handleIssue has ended, whatever its outcome and
\* whichever command failed on the way, main is the branch checked out in the
\* working directory.
C1_OnMainAfterRun == \A r \in Runs : Ran(r) => head = Main

\* C2: every run of handleIssue ends with one comment on the item, never
\* none and never two, and with at most one pull request created.  A post
\* counts as made when postComment was called and as a comment on the item
\* when gh delivered it: a run ends having called postComment and with at most
\* one comment delivered.
C2_OneCommentOnePr ==
  \A r \in Runs :
    Ran(r) => /\ hist[r].comments # <<>>
              /\ Cardinality(Delivered(r)) <= 1
              /\ hist[r].prs <= 1

\* C3: when the analysis invocation fails or its output holds no JSON
\* object, the run runs no git or gh command, leaves the branches and the
\* checked-out branch as they were, invokes the assistant once, and ends after
\* one call of postComment with the "Analysis Failed" body that carries the
\* error message (for a failed invocation, the message of that failure).
C3_AnalysisFailed ==
  \A r \in Runs :
    hist[r].gave \in ClaudeFailures \cup {"no object"} =>
      /\ run[r].pc \in {"postAnalysisFailed", "done"}
      /\ hist[r].cmds = <<>>
      /\ hist[r].claudeCalls = 1
      /\ localBranches = hist[r].before
      /\ head = hist[r].startHead
      /\ run[r].branchName = NoBranch
      /\ run[r].error # ""
      /\ hist[r].gave \in ClaudeFailures => run[r].error = hist[r].gave
      /\ run[r].pc = "postAnalysisFailed" => hist[r].comments = <<>>
      /\ run[r].pc = "done" =>
           /\ Len(hist[r].comments) = 1
           /\ hist[r].comments[1].kind = "Analysis Failed"
           /\ hist[r].comments[1].number = run[r].issueNumber
           /\ hist[r].comments[1].text = <<run[r].error>>

\* A run whose assistant printed prose without a JSON object has ended with
\* the "Analysis Failed" comment delivered.
C3_Witness ==
  \E r \in Runs :
    /\ Ran(r)
    /\ hist[r].gave = "no object"
    /\ Len(hist[r].comments) = 1
    /\ hist[r].comments[1].kind = "Analysis Failed"
    /\ hist[r].comments[1].delivered

\* C4: when the parsed analysis has canResolve false, the run runs no git
\* or gh command (no checkout, commit, push, branch creation or deletion),
\* invokes the assistant only once, and ends after one call of postComment
\* with the "cannot be resolved automatically" body that carries the reason
\* and the confidence of the analysis.
C4_CannotResolve ==
  \A r \in Runs :
    (run[r].analysis # NoAnalysis /\ ~run[r].analysis.canResolve) =>
      /\ run[r].pc \in {"postCannotResolve", "done"}
      /\ hist[r].cmds = <<>>
      /\ hist[r].claudeCalls = 1
      /\ localBranches = hist[r].before
      /\ head = hist[r].startHead
      /\ run[r].branchName = NoBranch
      /\ run[r].pc = "postCannotResolve" => hist[r].comments = <<>>
      /\ run[r].pc = "done" =>
           /\ Len(hist[r].comments) = 1
           /\ hist[r].comments[1].kind = "Cannot Resolve"
           /\ hist[r].comments[1].number = run[r].issueNumber
           /\ hist[r].comments[1].text =
                <<run[r].analysis.reason, run[r].analysis.confidence>>

\* A run whose analysis said canResolve false has ended with its comment
\* delivered.
C4_Witness ==
  \E r \in Runs :
    /\ Ran(r)
    /\ run[r].analysis # NoAnalysis
    /\ run[r].analysis.reason = "too vague"
    /\ ~run[r].analysis.canResolve
    /\ Len(hist[r].comments) = 1
    /\ hist[r].comments[1].delivered

\* C5: when an issue-triggered run that created autoclaude/issue-<n> has
\* ended in NoChangesNeeded or FixFailed, that branch is no longer in the
\* local repository, also when a cleanup command failed.
C5_CreatedBranchGone ==
  \A r \in Runs :
    (/\ Ran(r)
     /\ ~run[r].isPullRequest
     /\ hist[r].created
     /\ Outcome(r) \in {"No Changes", "Fix Failed"})
      => IssueBranch(run[r].issueNumber) \notin localBranches

\* C6: the router hands handleIssue isPullRequest = true for a created
\* issue_comment with the mention and isPullRequest = false for an opened
\* issue, so a mention-triggered run never takes the new-branch workflow
\* (git checkout -b).
C6_RouterWorkItem ==
  \A r \in Runs :
    /\ (Entered(r) /\ run[r].via = "issue_comment") =>
         /\ run[r].isPullRequest
         /\ <<"git", "checkout -b">> \notin Commands(r)
    /\ (Entered(r) /\ run[r].via = "issues") => ~run[r].isPullRequest

\* C7: with a webhook secret configured, a request whose signature header
\* is missing or differs from the expected one, whatever its length, is
\* answered 401 {error: "Invalid signature"} and handleIssue is not called.
C7_BadSignature401 ==
  \A r \in Runs :
    (/\ webhookSecret
     /\ request[r] # NoRequest
     /\ request[r].signature # expectedSignature)
      => /\ response[r] = "401 Invalid signature"
         /\ ~Entered(r)

\* C8: in an issue-triggered run that pushed its branch, a failed
\* pull-request creation yields no pull request and nothing else: the run
\* does not enter the failure path (no branch deletion, no "Fix Failed"
\* comment, no rejection) and ends on main.
C8_PrFailureDegrades ==
  \A r \in Runs :
    (/\ Ran(r)
     /\ ~run[r].isPullRequest
     /\ <<"gh", "pr create">> \in Commands(r)
     /\ hist[r].prs = 0)
      => /\ "Fix Failed" \notin Kinds(r)
         /\ <<"git", "branch -D">> \notin Commands(r)
         /\ run[r].error = ""
         /\ head = Main

\* C9: a run whose branch preparation failed (gh pr view, git fetch,
\* git checkout, git checkout -b) deletes no branch that was in the local
\* repository before the run started.
C9_KeepsEarlierBranches ==
  \A r \in Runs :
    (/\ Entered(r)
     /\ run[r].error \in {"Command failed: gh pr view", "Command failed: git fetch",
                          "Command failed: git checkout",
                          "Command failed: git checkout -b"})
      => hist[r].before \subseteq localBranches

\* Run r handles the issue that the run before it handled, that run having
\* ended with its pull request created and no command failed, after a fix
\* stage that edited files; in run r no command fails for a reason outside
\* the repository's state, and its analysis says canResolve.
SameIssueAgain(r) ==
  /\ r > 1
  /\ run[r - 1].pc = "archived"
  /\ ~run[r - 1].isPullRequest
  /\ hist[r - 1].clean
  /\ hist[r - 1].prs = 1
  /\ hist[r - 1].fixEffect = "edit"
  /\ Ran(r)
  /\ run[r].via = "issues"
  /\ run[r].issueNumber = run[r - 1].issueNumber
  /\ hist[r].faults = 0
  /\ run[r].analysis.canResolve

TryPositions ==
  {"getPullRequestInfo", "gitFetch", "gitCheckoutPr", "checkoutNew", "fix",
   "gitStatus", "gitLogOrigin", "gitLogLocal", "noopCheckout", "noopDelete",
   "postNoChanges", "gitAdd", "gitCommit", "gitPushPr", "postChangesPushed",
   "gitPushNew", "createPullRequest", "postFixCreated", "finalCheckout"}

LastCmd(h) == IF h.cmds = <<>> THEN <<"none", "none">> ELSE h.cmds[Len(h.cmds)]

Accepted(via) ==
  IF via = "issues" THEN "Issue received, processing..."
  ELSE "Comment mention received, processing..."

\* C12: for an accepted webhook event the response is sent before the run
\* has done anything (it is there when the run is at its first step) and so
\* before the run ends; nothing the run does changes it, and a rejection of
\* the run, also one from a failed post of the failure comment, is caught and
\* logged by the router: the request handler returns.
C12_ResponseFirst ==
  \A r \in Runs :
    (Entered(r) /\ run[r].via \in {"issues", "issue_comment"}) =>
      /\ response[r] = Accepted(run[r].via)
      /\ run[r].pc = "analyze" =>
           hist[r].claudeCalls = 0 /\ hist[r].cmds = <<>> /\ hist[r].comments = <<>>
      /\ run[r].pc # "done" => run[r].handler = "none"
      /\ run[r].pc = "done" =>
           run[r].handler = IF run[r].rejected THEN "logged by the router"
                            ELSE "returned"

\* A run started by an opened issue has ended with a rejection: the post of
\* its "Fix Failed" comment failed.
C12_Witness ==
  \E r \in Runs :
    /\ Ran(r)
    /\ run[r].via = "issues"
    /\ run[r].rejected
    /\ Outcome(r) = "Fix Failed"
    /\ Delivered(r) = {}
    /\ response[r] = "Issue received, processing..."

\* The deliveries the router is to act on: an opened issue, and a created
\* comment that mentions the configured user.
Actionable(req) ==
  \/ req.event = "issues" /\ req.action = "opened"
  \/ /\ req.event = "issue_comment"
     /\ req.action = "created"
     /\ mentionUser
     /\ req.comment = "@user please fix"

\* C13: handleIssue is called only for an opened issue and for a created
\* comment that contains the mention while a mention user is configured;
\* every other delivery, and every comment when no mention user is configured,
\* is answered (with the router's "ignored" message, or with 401 when its
\* signature is refused) and handleIssue is not called.  The deliveries whose
\* signature check throws are those of C7.
C13_RouterFilter ==
  \A r \in Runs :
    request[r] # NoRequest =>
      /\ Entered(r) => Actionable(request[r])
      /\ ~Actionable(request[r]) =>
           /\ run[r].pc = "done"
           /\ hist[r] = NoHist
           /\ request[r].signature.len \in {0, SigLen} =>
                response[r] \in {"Action ignored", "Event ignored",
                                 "Mention user not configured",
                                 "No matching mention found",
                                 "401 Invalid signature"}
           /\ (request[r].event = "issue_comment" /\ request[r].action = "created"
                 /\ ~mentionUser
                 /\ verifySignature(webhookSecret, request[r]) = "true") =>
                response[r] = "Mention user not configured"

\* A created comment with the mention was delivered to a deployment without
\* a mention user and was answered "Mention user not configured".
C13_Witness ==
  \E r \in Runs :
    /\ ~mentionUser
    /\ request[r] # NoRequest
    /\ request[r].event = "issue_comment"
    /\ request[r].action = "created"
    /\ request[r].comment = "@user please fix"
    /\ response[r] = "Mention user not configured"
    /\ run[r].pc = "done"
    /\ hist[r] = NoHist

\* C14: an invocation of runClaude settles once.  It is resolved, with the
\* trimmed accumulated standard output, only when the first settling event was
\* a close with exit status 0, the timer not having fired; a close with
\* another status as first event rejects it with the exit code and the
\* captured stderr, an error event as first event rejects it with that error,
\* the timer rejects it with the timeout message after killing the subprocess;
\* and once settled, no later event (a close after the timeout, an error after
\* the close) changes its state or its value.
C14_SettlesOnce ==
  /\ [](/\ claude.state = "pending" <=> claude.first = "none"
        /\ claude.state = "pending" => claude.calls = 0
        /\ claude.state = "resolved" =>
             /\ claude.first = "close"
             /\ claude.code = "0"
             /\ claude.timer = "cleared"
             /\ claude.value = trim(claude.stdout)
        /\ claude.timer = "fired" => claude.state = "rejected"
        /\ (claude.first = "close" /\ claude.code # "0") =>
             /\ claude.state = "rejected"
             /\ claude.value = <<"Claude exited with code", claude.code, claude.stderr>>
        /\ claude.first = "error" =>
             /\ claude.state = "rejected"
             /\ Len(claude.value) = 1 /\ claude.value[1] \in SpawnErrors
        /\ claude.first = "timeout" =>
             /\ claude.state = "rejected"
             /\ claude.killed
             /\ claude.value = <<"Claude CLI timed out">>)
  /\ [][claude.state \notin {"none", "pending"} =>
          /\ claude'.state = claude.state
          /\ claude'.value = claude.value
          /\ claude'.first = claude.first]_vars

\* The timer fired, and afterwards the killed subprocess closed with exit
\* status 0, having printed something: the promise stays rejected.
C14_Witness ==
  /\ claude.first = "timeout"
  /\ claude.closed
  /\ claude.code = "0"
  /\ claude.calls = 2
  /\ trim(claude.stdout) = <<"x">>
  /\ Len(claude.stdout) = 2
  /\ claude.state = "rejected"

\* The fix-stage invocation of run r ended with the timeout error.
FixTimedOut(r) ==
  /\ hist[r].claudeCalls = 2
  /\ run[r].error = "Claude CLI timed out"

\* C15: when the fix-stage invocation exceeds the timeout, its subprocess
\* is killed, the run goes through the failure path and ends with the
\* "Fix Failed" comment carrying the timeout message, after an attempt of
\* git checkout main; when nothing but that invocation fails, main is checked
\* out when the run ends, the comment is delivered and it is the run's only
\* comment.
C15_FixTimeout ==
  \A r \in Runs :
    FixTimedOut(r) =>
      /\ hist[r].killed
      /\ run[r].pc \in {"cleanupCheckout", "cleanupDelete", "postFixFailed", "done"}
      /\ run[r].pc # "cleanupCheckout" => <<"git", "checkout main">> \in Commands(r)
      /\ hist[r].prs = 0
      /\ run[r].pc = "done" =>
           /\ Len(hist[r].comments) = 1
           /\ hist[r].comments[1].kind = "Fix Failed"
           /\ hist[r].comments[1].text[3] = "Claude CLI timed out"
           /\ hist[r].faults = 1 =>
                /\ head = Main
                /\ hist[r].comments[1].delivered
                /\ ~run[r].isPullRequest =>
                     IssueBranch(run[r].issueNumber) \notin localBranches

\* A run whose fix-stage invocation timed out after editing files has ended
\* on main with its "Fix Failed" comment delivered.
C15_Witness ==
  \E r \in Runs :
    /\ Ran(r)
    /\ FixTimedOut(r)
    /\ hist[r].fixEffect = "edit"
    /\ hist[r].faults = 1
    /\ head = Main
    /\ Cardinality(Delivered(r)) = 1

\* C16: a run in which, after the fix stage, the working tree has no
\* uncommitted changes and the assistant has made no commit, ends
\* NoChangesNeeded: no commit, no push, no pull request, main checked out, one
\* "no changes necessary" comment, the branch deleted when the run is
\* issue-triggered and left as fetched when it is a PR-comment run.  Stated
\* for the runs in which no command fails for a reason outside the
\* repository's state.
C16_NoChangesNeeded ==
  \A r \in Runs :
    (/\ Ran(r)
     /\ hist[r].claudeCalls = 2
     /\ hist[r].faults = 0
     /\ hist[r].fixEffect = "none"
     /\ ~run[r].hasUncommittedChanges)
      => /\ Outcome(r) = "No Changes"
         /\ Len(hist[r].comments) = 1
         /\ Commands(r) \cap {<<"git", "commit">>, <<"git", "push">>,
                              <<"git", "push -u">>, <<"gh", "pr create">>} = {}
         /\ hist[r].prs = 0
         /\ head = Main
         /\ IF run[r].isPullRequest
            THEN /\ run[r].branchName \in localBranches
                 /\ localCommits[run[r].branchName] = remoteCommits[run[r].branchName]
            ELSE run[r].branchName \notin localBranches

\* Run r is issue-triggered, its analysis says canResolve, its fix stage
\* left uncommitted edits, and every external command of it has succeeded.
HappyIssueRun(r) ==
  /\ Entered(r)
  /\ ~run[r].isPullRequest
  /\ run[r].analysis.canResolve
  /\ hist[r].claudeCalls = 2
  /\ hist[r].fixEffect = "edit"
  /\ hist[r].faults = 0
  /\ run[r].error = ""

\* C17: such a run runs, in this order and each once: git checkout -b
\* autoclaude/issue-<n>, (git status, git log, git add -A,) git commit,
\* git push -u, gh pr create with a body that says "Fixes #<n>", the comment
\* on issue <n> that links the pull request, git checkout main.
C17_HappyPathInOrder ==
  \A r \in Runs :
    HappyIssueRun(r) =>
      /\ run[r].pc = "postFixCreated" =>
           /\ LastCmd(hist[r]) = <<"gh", "pr create">>
           /\ hist[r].comments = <<>>
      /\ run[r].pc = "finalCheckout" =>
           /\ LastCmd(hist[r]) = <<"gh", "pr create">>
           /\ Len(hist[r].comments) = 1
      /\ run[r].pc = "done" =>
           /\ hist[r].cmds =
                << <<"git", "checkout -b">>, <<"git", "status">>,
                   <<"git", "log origin">>, <<"git", "add -A">>,
                   <<"git", "commit">>, <<"git", "push -u">>,
                   <<"gh", "pr create">>, <<"git", "checkout main">> >>
           /\ hist[r].created
           /\ run[r].branchName = IssueBranch(run[r].issueNumber)
           /\ RunCommit(r) \in remoteCommits[run[r].branchName]
           /\ hist[r].prs = 1
           /\ \E p \in pullRequests :
                /\ p.by = r
                /\ p.head = run[r].branchName
                /\ p.base = Main
                /\ p.fixes = run[r].issueNumber
           /\ Len(hist[r].comments) = 1
           /\ hist[r].comments[1].kind = "Fix Created"
           /\ hist[r].comments[1].number = run[r].issueNumber
           /\ ~hist[r].comments[1].pr
           /\ hist[r].comments[1].delivered
           /\ head = Main

\* An opened issue 42 has been handled to the end on the happy path.
C17_Witness ==
  \E r \in Runs :
    /\ HappyIssueRun(r)
    /\ Ran(r)
    /\ run[r].via = "issues"
    /\ run[r].issueNumber = 42
    /\ hist[r].prs = 1
    /\ head = Main

\* Run r has pushed its branch: git push -u succeeded, for the run went on
\* to gh pr create.
Pushed(r) == <<"gh", "pr create">> \in Commands(r)

\* C18: no issue-triggered run that created its branch ends with that
\* branch pushed to the remote and deleted from the local repository.
C18_PushedOrDeleted ==
  \A r \in Runs :
    (Ran(r) /\ ~run[r].isPullRequest /\ hist[r].created /\ Pushed(r))
      => run[r].branchName \in localBranches

\* The text s holds an escaped newline: a backslash followed by n.
HasEscapedNewline(s) ==
  \E i \in 1..(Len(s) - 1) : s[i] = "BACKSLASH" /\ s[i + 1] = "n"

\* C19: a string field of the parsed analysis holds no escaped newline
\* (backslash, n) when it is embedded in a posted comment or pull-request
\* body.
C19_NewlinesNormalized ==
  (embed.pc = "posted" /\ embed.body.type = "string")
    => ~HasEscapedNewline(embed.body.chars)

\* C20: an analysis output that holds a well-formed JSON object, whatever
\* text follows it, yields an analysis: the run does not end with the
\* "Analysis Failed" comment.  Only an output without any parseable object
\* does.
C20_ObjectIsExtracted ==
  \A r \in Runs :
    hist[r].gave = "object" =>
      /\ run[r].pc # "postAnalysisFailed"
      /\ "Analysis Failed" \notin Kinds(r)

\* Run q has entered handleIssue and has not ended.
InProgress(q) == run[q].pc \notin {"idle", "done", "archived"}

\* C21: runs started by overlapping deliveries share one working directory
\* without mutual exclusion: a delivery starts a run while another run is in
\* progress, and the git commit of a run lands on whichever branch is
\* checked out at that moment and takes every staged edit, whichever run
\* made it.
C21_CommitsShareWorkdir ==
  [][\A r \in Runs :
       (run[r].pc = "gitCommit" /\ run'[r].pc = "gitPushNew") =>
         /\ RunCommit(r) \in localCommits'[head]
         /\ commitEdits'[RunCommit(r)] = staged
         /\ staged # {}]_vars

\* Two runs started by webhook deliveries are in progress, and the commit of
\* one of them sits on the branch the other created, not on its own, and
\* holds the other's file edits.
C21_Witness ==
  \E r, q \in Runs :
    /\ r # q
    /\ InProgress(r) /\ InProgress(q)
    /\ {run[r].via, run[q].via} \subseteq {"issues", "issue_comment"}
    /\ hist[q].created
    /\ run[q].branchName # run[r].branchName
    /\ RunCommit(r) \in localCommits[run[q].branchName]
    /\ RunCommit(r) \notin localCommits[run[r].branchName]
    /\ q \in commitEdits[RunCommit(r)]

\* C22: the commit step runs git add -A and git commit exactly when the
\* working tree has uncommitted changes, and the commit it makes carries the
\* message "fix: resolve issue #<n> - <title>" (issue runs) or "fix: address
\* review comments on PR #<n>" (PR-comment runs); with nothing uncommitted
\* it runs no command and goes on to push.
C22_CommitStep ==
  /\ committing.pc \in {"push", "catch"} =>
       IF committing.hasUncommittedChanges
       THEN committing.cmds = <<"git add -A", "git commit">>
       ELSE committing.cmds = <<>> /\ committing.pc = "push"
  /\ (committing.pc = "push" /\ committing.hasUncommittedChanges) =>
       committing.message =
         IF committing.isPullRequest
         THEN <<"fix: address review comments on PR #", committing.issueNumber>>
         ELSE <<"fix: resolve issue #", committing.issueNumber, " - ">>
                \o committing.issueTitle

\* An invocation whose timer was armed settles, whatever the subprocess does.
TimedInvocationSettles ==
  (claude.timer = "armed") ~> (claude.state \in {"resolved", "rejected"})

\* C23: every invocation of the assistant settles eventually, resolved or
\* rejected, even when the subprocess never exits and never emits an error.
C23_AlwaysSettles == <>(claude.state \in {"resolved", "rejected"})

\* C24: with runs executed one after another, the commit a run makes holds
\* only the file edits of that run's own fix stage: no earlier run leaves
\* uncommitted changes that a later run stages and commits.
C24_OwnChangesOnly ==
  \A r \in Runs : commitEdits[RunCommit(r)] \subseteq {r}

\* Run r has published its result: an issue run created its pull request, a
\* PR-comment run pushed to the branch of the pull request (it went on to
\* the "Changes Pushed" comment).
Published(r) ==
  /\ run[r].pc # "archived"
  /\ IF run[r].isPullRequest THEN "Changes Pushed" \in Kinds(r)
     ELSE hist[r].prs > 0

\* C25: a run that has published its result never enters the failure path:
\* it posts no "Fix Failed" comment and runs no git branch -D, whichever
\* later step (the linking comment, the final checkout of main) fails.
C25_PublishedNeverFails ==
  \A r \in Runs :
    Published(r) =>
      /\ run[r].pc \notin {"cleanupCheckout", "cleanupDelete", "postFixFailed"}
      /\ "Fix Failed" \notin Kinds(r)
      /\ <<"git", "branch -D">> \notin Commands(r)

====
